---------------------------- MODULE Spec2Model ----------------------------
(***************************************************************************)
(* PE_Scanner: the protection layer between the service and its resource   *)
(* limits.                                                                 *)
(*                                                                         *)
(*   - YahooAPIThrottle   (src/pe_scanner/data/api_throttle.py)            *)
(*   - tiered quota limit (src/pe_scanner/api/rate_limit.py)               *)
(*   - batch fetch engine (src/pe_scanner/data/fetcher.py)                 *)
(*                                                                         *)
(* Time of the throttle is counted in ticks of 1/TicksPerSecond seconds    *)
(* and tokens in units of 1/UnitsPerToken token, so that the float         *)
(* arithmetic of the token bucket is exact on integers.  Time of the quota *)
(* limiter is counted in hours.                                            *)
(***************************************************************************)
EXTENDS Integers, Sequences, FiniteSets, TLC

(***************************************************************************)
(* Program constants                                                       *)
(***************************************************************************)
YAHOO_REQUESTS_PER_SECOND == 2
YAHOO_BURST_LIMIT == 5
HOUR_KEY_TTL == 7200

(***************************************************************************)
(* Resolution of the model's fixed-point arithmetic: one tick refills      *)
(* exactly one token unit.                                                 *)
(***************************************************************************)
UnitsPerToken == YAHOO_REQUESTS_PER_SECOND
TicksPerSecond == YAHOO_REQUESTS_PER_SECOND * UnitsPerToken
BurstUnits == YAHOO_BURST_LIMIT * UnitsPerToken

(***************************************************************************)
(* Bounds of the model                                                     *)
(***************************************************************************)
MaxClock == 3
MaxTimeout == 2
MaxGranted == 6
MaxSeqGranted == 7
MaxRateClock == 10
MaxRateGranted == 10
RateTimeout == 4
MaxRaceClock == 1
MaxRaceGranted == 6

NoVal == 0 - 1
\* what an unreachable backend makes redis-py raise
FaultKinds == {"ConnectionError", "TimeoutError"}
Threads == {1, 2}
Procs == {1, 2}
Timeouts == {0, MaxTimeout}
\* with a timeout below zero
AnyTimeouts == Timeouts \cup {0 - 1}

Min(a, b) == IF a <= b THEN a ELSE b

VARIABLES
    (* environment *)
    clock,              \* time.time(), in ticks
    backendUp,          \* the Redis backend answers
    fault,              \* the exception a backend operation raises while it does not
    REDIS_ENABLED,      \* api_throttle.REDIS_ENABLED (environment variable)
    (* YahooAPIThrottle, one instance (module singleton) per process *)
    built,              \* _throttle is not None
    use_redis,          \* self._use_redis
    redis_client,       \* self._redis_client is not None
    local_tokens,       \* self._local_tokens, in token units
    local_last_refill,  \* self._local_last_refill, in ticks
    (* the throttle's keys in Redis *)
    rTokens,            \* yahoo:api:tokens (NoVal: key absent)
    rLastRefill,        \* yahoo:api:last_refill (NoVal: key absent)
    rHourCount,         \* yahoo:api:request_count:{hour}
    rHourExpire,        \* expiry of the hour key (NoVal: none set)
    (* one call of acquire per thread *)
    pc, proc, timeout, start_time, tnow, tadd, tcur, tokens, wake, result,
    (* history *)
    granted,            \* calls of acquire that returned True
    spent,              \* token units taken by this call's consume step
    faulted             \* a backend operation of this call raised

envVars == <<clock, backendUp, fault, REDIS_ENABLED>>
objVars == <<built, use_redis, redis_client, local_tokens, local_last_refill>>
redisVars == <<rTokens, rLastRefill, rHourCount, rHourExpire>>
callVars == <<pc, proc, timeout, start_time, tnow, tadd, tcur, tokens, wake, result>>
histVars == <<granted, spent, faulted>>
throttleVars == <<envVars, objVars, redisVars, callVars, histVars>>

VARIABLES
    qclock,      \* datetime.now(timezone.utc), in hours
    instance,    \* RedisClient._instance is not None, per process
    qcount,      \* the counters in Redis, by key (0: the key is absent)
    qexpire,     \* their expiry times in hours (NoVal: none)
    tierOf,      \* the tier get_user_tier resolves for each identifier
    rpc,         \* where each request handler is in decorated_function
    rid,         \* the identifier of the request it serves
    rres,        \* the RateLimitResult of its last check_rate_limit
    rec,         \* the outcome of its last record_usage
    rok,         \* whether the endpoint's analysis succeeded
    resp,        \* the HTTP response it has returned
    (* history *)
    usage        \* record_usage calls that incremented, per identifier, since its
                 \* counter was last fresh (a new UTC day began, or an admin reset it)

quotaVars == <<qclock, instance, qcount, qexpire, tierOf, rpc, rid, rres, rec, rok, resp, usage>>

VARIABLES
    (* data/fetcher.py: the module's cache *)
    cnow,            \* datetime.now(), in seconds
    cache,           \* _cache._cache: key -> CacheEntry (NoEntry: the key is absent)
    hits,            \* _cache._hits
    misses,          \* _cache._misses
    gets,            \* history: calls of _cache.get completed since the last clear
    cret,            \* what the last call made on _cache directly returned
    (* one call of batch_fetch *)
    bpc,             \* where the call is
    use_cache,       \* its use_cache argument
    cache_ttl,       \* get_config().cache_ttl
    max_concurrent,  \* get_config().max_concurrent
    given,           \* history: how many of the tickers passed in are not blank
    unique_tickers,  \* the normalised, de-duplicated tickers
    bidx,            \* the position of the cache partition loop in unique_tickers
    tickers_to_fetch,
    future,          \* per ticker, the state of its future in the executor
    outcome,         \* per ticker, what the upstream answered its worker
    successful,      \* result.successful
    failed,          \* result.failed
    cache_hits,      \* result.cache_hits
    api_calls,       \* result.api_calls
    (* one call of fetch_market_data *)
    fres,            \* what the last call returned
    (* history *)
    calls,           \* calls of batch_fetch and fetch_market_data begun
    upstreamCalls    \* requests sent to Yahoo Finance (yf.Ticker(...).info)

cacheVars == <<cnow, cache, hits, misses, gets>>
batchVars == <<bpc, use_cache, cache_ttl, max_concurrent, given, unique_tickers, bidx, tickers_to_fetch,
               future, outcome, successful, failed, cache_hits, api_calls>>
fetchVars == <<cacheVars, batchVars, fres, cret, calls, upstreamCalls>>

\* what the throttle owns, and what its steps leave alone
throttleState == <<objVars, redisVars, pc, timeout, start_time, tnow, tadd, tcur, tokens, wake, result, histVars>>
notThrottle == <<quotaVars, fetchVars>>


(***************************************************************************)
(* YahooAPIThrottle: pure parts                                            *)
(***************************************************************************)

\* tokens_to_add = elapsed * YAHOO_REQUESTS_PER_SECOND, in token units
TokensToAddTwice(elapsed) ==
    (2 * elapsed * YAHOO_REQUESTS_PER_SECOND * UnitsPerToken) \div TicksPerSecond

\* tokens_to_add = elapsed * YAHOO_REQUESTS_PER_SECOND
TokensToAdd(elapsed) ==
    (elapsed * YAHOO_REQUESTS_PER_SECOND * UnitsPerToken) \div TicksPerSecond

\* a refill without the cap
RefilledUncapped(current, add) == current + add

\* min(current + tokens_to_add, YAHOO_BURST_LIMIT)
Refilled(current, add) == Min(current + add, BurstUnits)

\* a threshold that lets a call through on an empty bucket
HasTokenAny(tok) == tok >= 0

\* if tokens >= 1.0
HasToken(tok) == tok >= UnitsPerToken

\* a consume that takes nothing from the bucket
ConsumedNothing(tok) == tok

\* tokens - 1.0
Consumed(tok) == tok - UnitsPerToken

\* a loop condition that still holds when the whole timeout has elapsed
WithinTimeoutInclusive(now, start, to) == (now - start) <= to

\* while (time.time() - start_time) < timeout
WithinTimeout(now, start, to) == (now - start) < to

\* wait_time = min(0.1 * (1 + elapsed / 10), 1.0), rounded up to whole ticks
WaitTicks(elapsed) ==
    Min(((10 * TicksPerSecond + elapsed) + 99) \div 100, TicksPerSecond)

\* float(client.get(key) or default)
OrDefault(v, default) == IF v = NoVal THEN default ELSE v

\* if self._use_redis and self._redis_client
RedisMode(p) == use_redis[p] /\ redis_client[p]

(***************************************************************************)
(* Environment                                                             *)
(***************************************************************************)
\* time passes only while the caller sleeps or is between two calls: the
\* steps of a call take no time
TickRate ==
    /\ clock < MaxRateClock
    /\ built[1]
    /\ \/ pc[1] \in {"idle", "done"}
       \/ pc[1] = "sleep" /\ clock < wake[1]
    /\ clock' = clock + 1
    /\ UNCHANGED <<backendUp, fault, REDIS_ENABLED, objVars, redisVars, callVars, histVars>>
    /\ UNCHANGED notThrottle

Tick ==
    /\ clock < MaxClock
    /\ clock' = clock + 1
    /\ UNCHANGED <<backendUp, fault, REDIS_ENABLED, objVars, redisVars, callVars, histVars>>
    /\ UNCHANGED notThrottle

BackendFails(kind) ==
    /\ backendUp
    /\ backendUp' = FALSE
    /\ fault' = kind
    /\ UNCHANGED <<clock, REDIS_ENABLED, objVars, redisVars, callVars, histVars>>
    /\ UNCHANGED notThrottle

BackendRecovers ==
    /\ ~backendUp
    /\ backendUp' = TRUE
    /\ UNCHANGED <<clock, fault, REDIS_ENABLED, objVars, redisVars, callVars, histVars>>
    /\ UNCHANGED notThrottle

(***************************************************************************)
(* get_throttle / YahooAPIThrottle.__init__ / _init_redis: the process's   *)
(* singleton is built on first use.  ping, exists and the two sets are     *)
(* taken as one step against the backend.                                  *)
(***************************************************************************)
Construct(p) ==
    /\ ~built[p]
    /\ built' = [built EXCEPT ![p] = TRUE]
    /\ local_tokens' = [local_tokens EXCEPT ![p] = BurstUnits]
    /\ local_last_refill' = [local_last_refill EXCEPT ![p] = clock]
    /\ IF REDIS_ENABLED /\ backendUp
       THEN /\ use_redis' = [use_redis EXCEPT ![p] = TRUE]
            /\ redis_client' = [redis_client EXCEPT ![p] = TRUE]
            /\ IF rTokens = NoVal
               THEN /\ rTokens' = BurstUnits
                    /\ rLastRefill' = clock
               ELSE UNCHANGED <<rTokens, rLastRefill>>
       ELSE /\ use_redis' = [use_redis EXCEPT ![p] = FALSE]
            /\ redis_client' = [redis_client EXCEPT ![p] = FALSE]
            /\ UNCHANGED <<rTokens, rLastRefill>>
    /\ UNCHANGED <<envVars, rHourCount, rHourExpire, callVars, histVars>>
    /\ UNCHANGED notThrottle

(***************************************************************************)
(* YahooAPIThrottle.acquire, one step per access to shared state           *)
(***************************************************************************)

\* a call of acquire begins (the caller has taken the result of the call before):
\* start_time = time.time()
Enter(t, to) ==
    /\ pc[t] \in {"idle", "done"}
    /\ built[proc[t]]
    /\ pc' = [pc EXCEPT ![t] = "loop"]
    /\ timeout' = [timeout EXCEPT ![t] = to]
    /\ start_time' = [start_time EXCEPT ![t] = clock]
    /\ result' = [result EXCEPT ![t] = "none"]
    /\ tokens' = [tokens EXCEPT ![t] = 0]
    /\ spent' = [spent EXCEPT ![t] = 0]
    /\ faulted' = [faulted EXCEPT ![t] = FALSE]
    /\ UNCHANGED <<envVars, objVars, redisVars, proc, tnow, tadd, tcur, wake, granted>>
    /\ UNCHANGED notThrottle

\* the while condition and the choice of the bucket
Loop(t) ==
    /\ pc[t] = "loop"
    /\ IF WithinTimeout(clock, start_time[t], timeout[t])
       THEN /\ pc' = [pc EXCEPT ![t] = IF RedisMode(proc[t]) THEN "r_get_last" ELSE "l_refill"]
            /\ UNCHANGED result
       ELSE /\ pc' = [pc EXCEPT ![t] = "done"]
            /\ result' = [result EXCEPT ![t] = "false"]
    /\ UNCHANGED <<envVars, objVars, redisVars, proc, timeout, start_time, tnow, tadd, tcur, tokens, wake, histVars>>
    /\ UNCHANGED notThrottle

\* the consume step found no token or failed: wait_time, time.sleep
Backoff(t) ==
    /\ pc[t] = "backoff"
    /\ pc' = [pc EXCEPT ![t] = "sleep"]
    /\ wake' = [wake EXCEPT ![t] = clock + WaitTicks(clock - start_time[t])]
    /\ UNCHANGED <<envVars, objVars, redisVars, proc, timeout, start_time, tnow, tadd, tcur, tokens, result, histVars>>
    /\ UNCHANGED notThrottle

Wake(t) ==
    /\ pc[t] = "sleep"
    /\ clock >= wake[t]
    /\ pc' = [pc EXCEPT ![t] = "loop"]
    /\ wake' = [wake EXCEPT ![t] = 0]
    /\ UNCHANGED <<envVars, objVars, redisVars, proc, timeout, start_time, tnow, tadd, tcur, tokens, result, histVars>>
    /\ UNCHANGED notThrottle

(***************************************************************************)
(* _refill_tokens_local / _consume_token_local                             *)
(***************************************************************************)

\* now = time.time(); elapsed = now - self._local_last_refill
LRefillRead(t) ==
    /\ pc[t] = "l_refill"
    /\ LET add == TokensToAdd(clock - local_last_refill[proc[t]])
       IN IF add > 0
          THEN /\ pc' = [pc EXCEPT ![t] = "l_load"]
               /\ tnow' = [tnow EXCEPT ![t] = clock]
               /\ tadd' = [tadd EXCEPT ![t] = add]
          ELSE /\ pc' = [pc EXCEPT ![t] = "l_ret"]
               /\ UNCHANGED <<tnow, tadd>>
    /\ UNCHANGED <<envVars, objVars, redisVars, proc, timeout, start_time, tcur, tokens, wake, result, histVars>>
    /\ UNCHANGED notThrottle

\* the read of self._local_tokens in min(self._local_tokens + tokens_to_add, ...)
LLoad(t) ==
    /\ pc[t] = "l_load"
    /\ pc' = [pc EXCEPT ![t] = "l_store"]
    /\ tcur' = [tcur EXCEPT ![t] = local_tokens[proc[t]]]
    /\ UNCHANGED <<envVars, objVars, redisVars, proc, timeout, start_time, tnow, tadd, tokens, wake, result, histVars>>
    /\ UNCHANGED notThrottle

\* self._local_tokens = min(...)
LStore(t) ==
    /\ pc[t] = "l_store"
    /\ pc' = [pc EXCEPT ![t] = "l_store_last"]
    /\ local_tokens' = [local_tokens EXCEPT ![proc[t]] = Refilled(tcur[t], tadd[t])]
    /\ tcur' = [tcur EXCEPT ![t] = 0]
    /\ tadd' = [tadd EXCEPT ![t] = 0]
    /\ UNCHANGED <<envVars, built, use_redis, redis_client, local_last_refill, redisVars, proc, timeout, start_time, tnow, tokens, wake, result, histVars>>
    /\ UNCHANGED notThrottle

\* self._local_last_refill = now
LStoreLast(t) ==
    /\ pc[t] = "l_store_last"
    /\ pc' = [pc EXCEPT ![t] = "l_ret"]
    /\ local_last_refill' = [local_last_refill EXCEPT ![proc[t]] = tnow[t]]
    /\ tnow' = [tnow EXCEPT ![t] = 0]
    /\ UNCHANGED <<envVars, built, use_redis, redis_client, local_tokens, redisVars, proc, timeout, start_time, tadd, tcur, tokens, wake, result, histVars>>
    /\ UNCHANGED notThrottle

\* return self._local_tokens; if tokens >= 1.0
LRet(t) ==
    /\ pc[t] = "l_ret"
    /\ LET tok == local_tokens[proc[t]]
       IN pc' = [pc EXCEPT ![t] = IF HasToken(tok) THEN "l_dec_load" ELSE "backoff"]
    /\ UNCHANGED <<envVars, objVars, redisVars, proc, timeout, start_time, tnow, tadd, tcur, tokens, wake, result, histVars>>
    /\ UNCHANGED notThrottle

\* the read of self._local_tokens in self._local_tokens -= 1.0
LDecLoad(t) ==
    /\ pc[t] = "l_dec_load"
    /\ pc' = [pc EXCEPT ![t] = "l_dec_store"]
    /\ tcur' = [tcur EXCEPT ![t] = local_tokens[proc[t]]]
    /\ UNCHANGED <<envVars, objVars, redisVars, proc, timeout, start_time, tnow, tadd, tokens, wake, result, histVars>>
    /\ UNCHANGED notThrottle

\* the write of self._local_tokens -= 1.0; return True
LDecStore(t) ==
    /\ pc[t] = "l_dec_store"
    /\ pc' = [pc EXCEPT ![t] = "done"]
    /\ local_tokens' = [local_tokens EXCEPT ![proc[t]] = Consumed(tcur[t])]
    /\ tcur' = [tcur EXCEPT ![t] = 0]
    /\ result' = [result EXCEPT ![t] = "true"]
    /\ granted' = granted + 1
    /\ spent' = [spent EXCEPT ![t] = @ + UnitsPerToken]
    /\ UNCHANGED <<envVars, built, use_redis, redis_client, local_last_refill, redisVars, proc, timeout, start_time, tnow, tadd, tokens, wake, faulted>>
    /\ UNCHANGED notThrottle

(***************************************************************************)
(* _refill_tokens_redis / _consume_token_redis.  Every backend operation   *)
(* raises when the backend does not answer; both functions catch every     *)
(* exception: the refill then returns 0.0 and the consume returns False.   *)
(***************************************************************************)

\* now = time.time(); last_refill = float(get(REDIS_KEY_LAST_REFILL) or now)
RGetLast(t) ==
    /\ pc[t] = "r_get_last"
    /\ IF ~backendUp
       THEN /\ pc' = [pc EXCEPT ![t] = "backoff"]
            /\ tokens' = [tokens EXCEPT ![t] = 0]
            /\ UNCHANGED <<tnow, tadd>>
       ELSE LET add == TokensToAdd(clock - OrDefault(rLastRefill, clock))
            IN IF add > 0
               THEN /\ pc' = [pc EXCEPT ![t] = "r_get_tokens"]
                    /\ tnow' = [tnow EXCEPT ![t] = clock]
                    /\ tadd' = [tadd EXCEPT ![t] = add]
                    /\ UNCHANGED tokens
               ELSE /\ pc' = [pc EXCEPT ![t] = "r_get_plain"]
                    /\ UNCHANGED <<tnow, tadd, tokens>>
    /\ faulted' = [faulted EXCEPT ![t] = @ \/ ~backendUp]
    /\ UNCHANGED <<envVars, objVars, redisVars, proc, timeout, start_time, tcur, wake, result, granted, spent>>
    /\ UNCHANGED notThrottle

\* current_tokens = float(get(REDIS_KEY_TOKENS) or 0)
RGetTokens(t) ==
    /\ pc[t] = "r_get_tokens"
    /\ IF ~backendUp
       THEN /\ pc' = [pc EXCEPT ![t] = "backoff"]
            /\ tokens' = [tokens EXCEPT ![t] = 0]
            /\ tnow' = [tnow EXCEPT ![t] = 0]
            /\ tadd' = [tadd EXCEPT ![t] = 0]
            /\ UNCHANGED tcur
       ELSE /\ pc' = [pc EXCEPT ![t] = "r_set"]
            /\ tcur' = [tcur EXCEPT ![t] = OrDefault(rTokens, 0)]
            /\ UNCHANGED <<tokens, tnow, tadd>>
    /\ faulted' = [faulted EXCEPT ![t] = @ \/ ~backendUp]
    /\ UNCHANGED <<envVars, objVars, redisVars, proc, timeout, start_time, wake, result, granted, spent>>
    /\ UNCHANGED notThrottle

\* pipe.set(tokens); pipe.set(last_refill); pipe.execute(); return new_tokens;
\* then if tokens >= 1.0
RSet(t) ==
    /\ pc[t] = "r_set"
    /\ IF ~backendUp
       THEN /\ pc' = [pc EXCEPT ![t] = "backoff"]
            /\ tokens' = [tokens EXCEPT ![t] = 0]
            /\ UNCHANGED <<rTokens, rLastRefill>>
       ELSE LET new == Refilled(tcur[t], tadd[t])
            IN /\ rTokens' = new
               /\ rLastRefill' = tnow[t]
               /\ tokens' = [tokens EXCEPT ![t] = new]
               /\ pc' = [pc EXCEPT ![t] = IF HasToken(new) THEN "r_dec" ELSE "backoff"]
    /\ tnow' = [tnow EXCEPT ![t] = 0]
    /\ tadd' = [tadd EXCEPT ![t] = 0]
    /\ tcur' = [tcur EXCEPT ![t] = 0]
    /\ faulted' = [faulted EXCEPT ![t] = @ \/ ~backendUp]
    /\ UNCHANGED <<envVars, objVars, rHourCount, rHourExpire, proc, timeout, start_time, wake, result, granted, spent>>
    /\ UNCHANGED notThrottle

\* no time elapsed: return float(get(REDIS_KEY_TOKENS) or 0); then if tokens >= 1.0
RGetPlain(t) ==
    /\ pc[t] = "r_get_plain"
    /\ IF ~backendUp
       THEN /\ pc' = [pc EXCEPT ![t] = "backoff"]
            /\ tokens' = [tokens EXCEPT ![t] = 0]
       ELSE LET tok == OrDefault(rTokens, 0)
            IN /\ tokens' = [tokens EXCEPT ![t] = tok]
               /\ pc' = [pc EXCEPT ![t] = IF HasToken(tok) THEN "r_dec" ELSE "backoff"]
    /\ faulted' = [faulted EXCEPT ![t] = @ \/ ~backendUp]
    /\ UNCHANGED <<envVars, objVars, redisVars, proc, timeout, start_time, tnow, tadd, tcur, wake, result, granted, spent>>
    /\ UNCHANGED notThrottle

\* self._redis_client.set(REDIS_KEY_TOKENS, str(tokens - 1.0))
RDec(t) ==
    /\ pc[t] = "r_dec"
    /\ IF ~backendUp
       THEN /\ pc' = [pc EXCEPT ![t] = "backoff"]
            /\ UNCHANGED <<rTokens, spent>>
       ELSE /\ pc' = [pc EXCEPT ![t] = "r_incr"]
            /\ rTokens' = Consumed(tokens[t])
            /\ spent' = [spent EXCEPT ![t] = @ + UnitsPerToken]
    /\ faulted' = [faulted EXCEPT ![t] = @ \/ ~backendUp]
    /\ UNCHANGED <<envVars, objVars, rLastRefill, rHourCount, rHourExpire, proc, timeout, start_time, tnow, tadd, tcur, tokens, wake, result, granted>>
    /\ UNCHANGED notThrottle

\* self._redis_client.incr(hour_key)
RIncr(t) ==
    /\ pc[t] = "r_incr"
    /\ IF ~backendUp
       THEN /\ pc' = [pc EXCEPT ![t] = "backoff"]
            /\ UNCHANGED rHourCount
       ELSE /\ pc' = [pc EXCEPT ![t] = "r_expire"]
            /\ rHourCount' = rHourCount + 1
    /\ faulted' = [faulted EXCEPT ![t] = @ \/ ~backendUp]
    /\ UNCHANGED <<envVars, objVars, rTokens, rLastRefill, rHourExpire, proc, timeout, start_time, tnow, tadd, tcur, tokens, wake, result, granted, spent>>
    /\ UNCHANGED notThrottle

\* self._redis_client.expire(hour_key, 7200); return True
RExpire(t) ==
    /\ pc[t] = "r_expire"
    /\ IF ~backendUp
       THEN /\ pc' = [pc EXCEPT ![t] = "backoff"]
            /\ UNCHANGED <<rHourExpire, result, granted>>
       ELSE /\ pc' = [pc EXCEPT ![t] = "done"]
            /\ rHourExpire' = clock + HOUR_KEY_TTL * TicksPerSecond
            /\ result' = [result EXCEPT ![t] = "true"]
            /\ granted' = granted + 1
    /\ faulted' = [faulted EXCEPT ![t] = @ \/ ~backendUp]
    /\ UNCHANGED <<envVars, objVars, rTokens, rLastRefill, rHourCount, proc, timeout, start_time, tnow, tadd, tcur, tokens, wake, spent>>
    /\ UNCHANGED notThrottle

\* the steps of acquire that follow its entry
AcquireStep(t) ==
    \/ Loop(t) \/ Backoff(t) \/ Wake(t)
    \/ LRefillRead(t) \/ LLoad(t) \/ LStore(t) \/ LStoreLast(t)
    \/ LRet(t) \/ LDecLoad(t) \/ LDecStore(t)

AcquireStepRedis(t) ==
    \/ RGetLast(t) \/ RGetTokens(t) \/ RSet(t) \/ RGetPlain(t)
    \/ RDec(t) \/ RIncr(t) \/ RExpire(t)

(***************************************************************************)
(* Tiered quota limiter (api/rate_limit.py).  Its clock counts hours; a    *)
(* counter key is <<tier, identifier, UTC date>>.                          *)
(***************************************************************************)
RATE_LIMIT_WINDOW == 86400
BUFFER_SECONDS == 3600
SECONDS_PER_HOUR == 3600
HoursPerDay == RATE_LIMIT_WINDOW \div SECONDS_PER_HOUR

MaxHour == 26
MaxOver == 1

\* the instants of a day the model looks at: midnight, the hour after it (when a
\* key of the day before can still be alive) and the last hour
HourMarks == {0, 1, HoursPerDay - 1}
HourSteps == {1, HoursPerDay - 2}
Tiers == {"anonymous", "free", "pro", "premium", "partner"}
Ids == {"u1"}
Dates == 0..((MaxHour \div HoursPerDay) + 1)
Keys == Tiers \X Ids \X Dates


\* RATE_LIMITS.get(tier, RATE_LIMITS["anonymous"])
RATE_LIMITS(tier) ==
    CASE tier = "anonymous" -> 3
      [] tier = "free" -> 10
      [] tier = "pro" -> 0 - 1
      [] tier = "premium" -> 0 - 1
      [] OTHER -> 3

\* datetime.now(timezone.utc).strftime("%Y-%m-%d")
DateOf(hour) == hour \div HoursPerDay

\* a key that leaves the date out
get_rate_limit_keyNoDate(tier, identifier, hour) == <<tier, identifier, 0>>

\* get_rate_limit_key: "ratelimit:{tier}:{identifier}:{date_str}"
get_rate_limit_key(tier, identifier, hour) == <<tier, identifier, DateOf(hour)>>

\* a reset time that rolls with the hour of the call
get_reset_timeRolling(hour) == hour + HoursPerDay

\* get_reset_time: midnight UTC of today + RATE_LIMIT_WINDOW
get_reset_time(hour) == DateOf(hour) * HoursPerDay + HoursPerDay

\* a handler that catches the base class only by exact type
IsRedisErrorExact(exc) == exc = "RedisError"

\* except redis.RedisError (check_rate_limit, record_usage, reset_user_limit)
IsRedisError(exc) == exc \in {"RedisError", "ConnectionError", "TimeoutError"}

\* except (redis.ConnectionError, redis.TimeoutError) (RedisClient.get_client)
IsConnectionOrTimeout(exc) == exc \in {"ConnectionError", "TimeoutError"}

\* RedisClient.get_client: the instance it leaves, the client it returns,
\* and whether an exception escapes
GetClient(enabled, inst, up, exc) ==
    IF ~enabled THEN [client |-> FALSE, inst |-> inst, raised |-> FALSE]
    ELSE IF inst THEN [client |-> TRUE, inst |-> TRUE, raised |-> FALSE]
    ELSE IF up THEN [client |-> TRUE, inst |-> TRUE, raised |-> FALSE]
    ELSE IF IsConnectionOrTimeout(exc)
         THEN [client |-> FALSE, inst |-> FALSE, raised |-> FALSE]
         ELSE [client |-> FALSE, inst |-> TRUE, raised |-> TRUE]

Result(allowed, remaining, limit, hour, tier, suggest, via) ==
    [allowed |-> allowed, remaining |-> remaining, limit |-> limit,
     reset_at |-> get_reset_time(hour), tier |-> tier,
     suggest_upgrade |-> suggest, via |-> via]

NoResult == Result(FALSE, 0, 0, 0 - HoursPerDay, "", FALSE, "none")

\* a comparison that lets one request more through
CountedLate(tier, limit, count, hour) ==
    IF count > limit
    THEN Result(FALSE, 0, limit, hour, tier, tier = "anonymous", "counted")
    ELSE Result(TRUE, limit - count, limit, hour, tier, FALSE, "counted")

\* the branch of check_rate_limit that has read the counter
Counted(tier, limit, count, hour) ==
    IF count >= limit
    THEN Result(FALSE, 0, limit, hour, tier, tier = "anonymous", "counted")
    ELSE Result(TRUE, limit - count, limit, hour, tier, FALSE, "counted")

\* a check that fails closed: without a client, or when the read fails, the
\* request is refused
check_rate_limitClosed(tier, identifier, hour, gc, up, exc, counts) ==
    LET limit == RATE_LIMITS(tier)
    IN IF limit = 0 - 1
       THEN Result(TRUE, 0 - 1, 0 - 1, hour, tier, FALSE, "unlimited")
       ELSE IF gc.client /\ up
            THEN Counted(tier, limit, counts[get_rate_limit_key(tier, identifier, hour)], hour)
            ELSE Result(FALSE, 0, limit, hour, tier, FALSE, "no_client")

\* check_rate_limit(tier, identifier); via "raised" stands for an exception
\* that escapes the call
check_rate_limit(tier, identifier, hour, gc, up, exc, counts) ==
    LET limit == RATE_LIMITS(tier)
    IN IF limit = 0 - 1
       THEN Result(TRUE, 0 - 1, 0 - 1, hour, tier, FALSE, "unlimited")
       ELSE IF gc.raised THEN [NoResult EXCEPT !.via = "raised"]
       ELSE IF ~gc.client
            THEN Result(TRUE, limit, limit, hour, tier, FALSE, "no_client")
       ELSE IF up
            THEN Counted(tier, limit, counts[get_rate_limit_key(tier, identifier, hour)], hour)
       ELSE IF IsRedisError(exc)
            THEN Result(TRUE, limit, limit, hour, tier, FALSE, "redis_error")
            ELSE [NoResult EXCEPT !.via = "raised"]

\* a record_usage that meters every tier
record_usageAll(tier, gc, up, exc) ==
    IF gc.raised THEN "raised"
    ELSE IF ~gc.client THEN "no_client"
    ELSE IF up THEN "recorded"
    ELSE IF IsRedisError(exc) THEN "redis_error"
    ELSE "raised"

\* record_usage(tier, identifier, ticker): what the call comes to
\*   "recorded"  the pipeline incremented the counter and set its expiry
\*   "unmetered" the tier is unlimited: nothing is sent to the backend
\*   "no_client" get_client returned None
\*   "redis_error" the pipeline raised and the handler caught it
\*   "raised"    an exception escapes the call
record_usage(tier, gc, up, exc) ==
    IF gc.raised THEN "raised"
    ELSE IF ~gc.client THEN "no_client"
    ELSE IF RATE_LIMITS(tier) = 0 - 1 THEN "unmetered"
    ELSE IF up THEN "recorded"
    ELSE IF IsRedisError(exc) THEN "redis_error"
    ELSE "raised"

\* an expiry of one hour
ExpiryWithinDay(hour) == hour + 1

\* an expiry of the window without the buffer
ExpiryWindowOnly(hour) == hour + HoursPerDay

\* pipeline.expire(key, RATE_LIMIT_WINDOW + 3600)
ExpiryFrom(hour) == hour + (RATE_LIMIT_WINDOW + BUFFER_SECONDS) \div SECONDS_PER_HOUR

\* record_usage is called on its own only while fewer calls than this were counted
UsageCap(tier) ==
    IF RATE_LIMITS(tier) = 0 - 1 THEN MaxOver + 1 ELSE RATE_LIMITS(tier) + MaxOver

\* time passes; Redis drops the keys whose expiry is reached
AdvanceHours(d) ==
    /\ qclock + d <= MaxHour
    /\ (qclock + d) % HoursPerDay \in HourMarks
    /\ qclock' = qclock + d
    /\ qcount' = [k \in Keys |-> IF qexpire[k] # NoVal /\ qexpire[k] <= qclock + d THEN 0 ELSE qcount[k]]
    /\ qexpire' = [k \in Keys |-> IF qexpire[k] # NoVal /\ qexpire[k] <= qclock + d THEN NoVal ELSE qexpire[k]]
    /\ IF DateOf(qclock + d) # DateOf(qclock)
       THEN usage' = [i \in Ids |-> 0]
       ELSE UNCHANGED usage
    /\ UNCHANGED <<envVars, proc, throttleState, fetchVars, instance, tierOf, rpc, rid, rres, rec, rok, resp>>

\* an HTTP response: its status, the X-RateLimit-Limit, -Remaining and -Reset
\* headers and the Retry-After header (NoVal: the header is absent)
Response(status, limit, remaining, reset, retry_after) ==
    [status |-> status, limit |-> limit, remaining |-> remaining,
     reset |-> reset, retry_after |-> retry_after]

NoResponse == Response(0, NoVal, NoVal, NoVal, NoVal)

\* an exception that leaves the view function: Flask answers 500
ServerError == Response(500, NoVal, NoVal, NoVal, NoVal)

\* a blocked request answered as a server error
RateLimitExceededAsError(res, now) == ServerError

\* the branch `if not result.allowed`: jsonify(error_response), status 429,
\* Retry-After and the rate limit headers
RateLimitExceeded(res, now) ==
    Response(429, res.limit, res.remaining, res.reset_at, res.reset_at - now)

\* what the decorator returns after the endpoint ran: the endpoint's response;
\* a Response object gets the rate limit headers, the (body, status) pair of
\* an error answer has no headers attribute and is returned as it is
Served(ok, res) ==
    IF ok THEN Response(200, res.limit, res.remaining, res.reset_at, NoVal)
    ELSE Response(404, NoVal, NoVal, NoVal, NoVal)

\* tier, user_id = get_user_tier(request); result = check_rate_limit(tier, identifier)
CheckStep(t, id, blocked, passed) ==
    LET gc == GetClient(REDIS_ENABLED, instance[proc[t]], backendUp, fault)
        res == check_rate_limit(tierOf[id], id, qclock, gc, backendUp, fault, qcount)
    IN /\ instance' = [instance EXCEPT ![proc[t]] = gc.inst]
       /\ rid' = [rid EXCEPT ![t] = id]
       /\ rres' = [rres EXCEPT ![t] = res]
       /\ rok' = [rok EXCEPT ![t] = FALSE]
       /\ rpc' = [rpc EXCEPT ![t] =
                     IF res.via = "raised" THEN "error"
                     ELSE IF res.allowed THEN passed ELSE blocked]
       /\ resp' = [resp EXCEPT ![t] =
                      IF res.via = "raised" THEN ServerError
                      ELSE IF ~res.allowed /\ blocked = "blocked"
                           THEN RateLimitExceeded(res, qclock)
                           ELSE NoResponse]
       /\ UNCHANGED <<envVars, proc, throttleState, fetchVars, qclock, qcount, qexpire, tierOf, rec, usage>>

\* record_usage(tier, identifier, ticker)
RecordStep(t, id) ==
    LET gc == GetClient(REDIS_ENABLED, instance[proc[t]], backendUp, fault)
        out == record_usage(tierOf[id], gc, backendUp, fault)
        key == get_rate_limit_key(tierOf[id], id, qclock)
    IN /\ instance' = [instance EXCEPT ![proc[t]] = gc.inst]
       /\ rec' = [rec EXCEPT ![t] = out]
       /\ rid' = [rid EXCEPT ![t] = id]
       /\ rres' = [rres EXCEPT ![t] = NoResult]
       /\ rpc' = [rpc EXCEPT ![t] = IF out = "raised" THEN "error" ELSE "done"]
       /\ resp' = [resp EXCEPT ![t] =
                      IF out = "raised" THEN ServerError
                      ELSE IF rpc[t] = "record" THEN Served(rok[t], rres[t])
                           ELSE NoResponse]
       /\ IF out = "recorded"
          THEN /\ qcount' = [qcount EXCEPT ![key] = @ + 1]
               /\ qexpire' = [qexpire EXCEPT ![key] = ExpiryFrom(qclock)]
               /\ usage' = [usage EXCEPT ![id] = @ + 1]
          ELSE UNCHANGED <<qcount, qexpire, usage>>
       /\ UNCHANGED <<envVars, proc, throttleState, fetchVars, qclock, tierOf, rok>>

Free(t) == rpc[t] \in {"idle", "done", "blocked", "checked", "error"}

\* rate_limit_check.decorated_function: a request arrives and is checked;
\* a blocked one is answered 429
ReqCheck(t, id) ==
    /\ Free(t)
    /\ CheckStep(t, id, "blocked", "exec")

\* response = f(*args, **kwargs): the endpoint runs; it answers an error
\* itself when the analysis fails
ReqExec(t, ok) ==
    /\ rpc[t] = "exec"
    /\ rpc' = [rpc EXCEPT ![t] = "record"]
    /\ rok' = [rok EXCEPT ![t] = ok]
    /\ UNCHANGED <<envVars, proc, throttleState, fetchVars, qclock, instance, qcount, qexpire, tierOf, rid, rres, rec, resp, usage>>

\* record_usage(tier, identifier, ticker), then the response is returned
ReqRecord(t) ==
    /\ rpc[t] = "record"
    /\ RecordStep(t, rid[t])

\* check_rate_limit called on its own
ApiCheck(t, id) ==
    /\ Free(t)
    /\ CheckStep(t, id, "checked", "checked")

\* record_usage called on its own
ApiRecord(t, id) ==
    /\ Free(t)
    /\ usage[id] < UsageCap(tierOf[id])
    /\ RecordStep(t, id)

\* reset_user_limit(tier, identifier): client.delete(key)
AdminReset(t, id) ==
    /\ Free(t)
    /\ LET gc == GetClient(REDIS_ENABLED, instance[proc[t]], backendUp, fault)
           key == get_rate_limit_key(tierOf[id], id, qclock)
       IN /\ instance' = [instance EXCEPT ![proc[t]] = gc.inst]
          /\ IF gc.client /\ backendUp
             THEN /\ qcount' = [qcount EXCEPT ![key] = 0]
                  /\ qexpire' = [qexpire EXCEPT ![key] = NoVal]
                  /\ usage' = [usage EXCEPT ![id] = 0]
             ELSE UNCHANGED <<qcount, qexpire, usage>>
          /\ rpc' = [rpc EXCEPT ![t] =
                        IF gc.raised \/ (gc.client /\ ~backendUp /\ ~IsRedisError(fault))
                        THEN "error" ELSE "idle"]
    /\ rres' = [rres EXCEPT ![t] = NoResult]
    /\ rec' = [rec EXCEPT ![t] = "none"]
    /\ rok' = [rok EXCEPT ![t] = FALSE]
    /\ resp' = [resp EXCEPT ![t] = NoResponse]
    /\ UNCHANGED <<envVars, proc, throttleState, fetchVars, qclock, tierOf, rid>>

\* the backend fails or recovers while the limiter runs
QuotaBackendFails(kind) ==
    /\ backendUp
    /\ backendUp' = FALSE
    /\ fault' = kind
    /\ UNCHANGED <<clock, REDIS_ENABLED, proc, throttleState, fetchVars, quotaVars>>

QuotaBackendRecovers ==
    /\ ~backendUp
    /\ backendUp' = TRUE
    /\ UNCHANGED <<clock, fault, REDIS_ENABLED, proc, throttleState, fetchVars, quotaVars>>

(***************************************************************************)
(* Market data fetcher (data/fetcher.py).  A ticker is a sequence of       *)
(* characters; the cache clock counts seconds.                             *)
(***************************************************************************)
MaxBatch == 2
MaxCacheClock == 2
MaxTTL == 1
MaxWorkers == 2
MaxCalls == 2

\* the tickers a caller passes: empty, blank, one symbol in lower case, in
\* upper case and padded, and a second symbol
RawTickers == {<<>>, <<" ">>, <<"a">>, <<"A">>, <<" ", "a", " ">>, <<"a", "A">>}
TickerLists == UNION {[1..n -> RawTickers] : n \in 0..MaxBatch}
TTLs == 0..MaxTTL
Answers == {"price", "noprice", "raises"}

RECURSIVE LStrip(_)
LStrip(s) == IF s # <<>> /\ Head(s) = " " THEN LStrip(Tail(s)) ELSE s

RECURSIVE RStrip(_)
RStrip(s) ==
    IF s # <<>> /\ s[Len(s)] = " " THEN RStrip(SubSeq(s, 1, Len(s) - 1)) ELSE s

\* str.strip()
Strip(s) == RStrip(LStrip(s))

UpperChar(c) == IF c = "a" THEN "A" ELSE c

\* str.upper()
Upper(s) == [i \in 1..Len(s) |-> UpperChar(s[i])]

\* a normalisation that only trims
NormalizeTrimOnly(s) == Strip(s)

\* ticker.strip().upper()
Normalize(s) == Upper(Strip(s))

SeqRange(q) == {q[i] : i \in 1..Len(q)}

\* list(dict.fromkeys(q)): the first occurrence of each element, in order
RECURSIVE FromKeys(_)
FromKeys(q) ==
    IF q = <<>> THEN <<>>
    ELSE LET front == FromKeys(SubSeq(q, 1, Len(q) - 1))
             last == q[Len(q)]
         IN IF last \in SeqRange(front) THEN front ELSE Append(front, last)

\* t.strip().upper() for t in tickers if t and t.strip()
RECURSIVE Normalized(_)
Normalized(tickers) ==
    IF tickers = <<>> THEN <<>>
    ELSE LET t == Head(tickers)
         IN IF t # <<>> /\ Strip(t) # <<>>
            THEN <<Normalize(t)>> \o Normalized(Tail(tickers))
            ELSE Normalized(Tail(tickers))

\* the positions of a ticker that hold something else than a space
NonSpace(t) == {i \in 1..Len(t) : t[i] # " "}

\* the normalised tickers with their repetitions
UniqueTickersWithRepeats(tickers) == Normalized(tickers)

\* unique_tickers = list(dict.fromkeys(...))
UniqueTickers(tickers) == FromKeys(Normalized(tickers))

CacheKeys == RawTickers \cup {Upper(r) : r \in RawTickers}
Symbols == {Normalize(r) : r \in RawTickers} \ {<<>>}

NoEntry == [data |-> "none", expires_at |-> NoVal]

\* a call made on the cache directly: the operation, its ticker, what it
\* returned (for set: the data it was given, and until when it is to live),
\* and the operation and ticker of the call before it
Return(op, ticker, value, until, before) ==
    [op |-> op, ticker |-> ticker, value |-> value, until |-> until,
     prev_op |-> before.op, prev_ticker |-> before.ticker]

NoReturn ==
    [op |-> "none", ticker |-> <<>>, value |-> "none", until |-> NoVal,
     prev_op |-> "none", prev_ticker |-> <<>>]

\* the tickers the cache is called with directly, and the data stored
CacheTickers == {<<"a">>, <<"A">>, <<"a", "A">>}
CacheData == {"price", "noprice"}
MaxGets == 3

Stored(c) == {k \in DOMAIN c : c[k] # NoEntry}

\* MarketDataCache.get_stats; hit_rate is the pair <<numerator, denominator>>
get_stats(c, h, m) ==
    LET total == h + m
    IN [size |-> Cardinality(Stored(c)), hits |-> h, misses |-> m,
        hit_rate |-> IF total > 0 THEN <<h, total>> ELSE <<0, 1>>]

\* get that counts nothing when it evicts an expired entry
CacheGetQuietExpiry(c, h, m, ticker, now) ==
    LET key == Upper(ticker)
        entry == c[key]
    IN IF entry = NoEntry
       THEN [data |-> "none", cache |-> c, hits |-> h, misses |-> m + 1]
       ELSE IF now > entry.expires_at
       THEN [data |-> "none", cache |-> [c EXCEPT ![key] = NoEntry], hits |-> h, misses |-> m]
       ELSE [data |-> entry.data, cache |-> c, hits |-> h + 1, misses |-> m]

\* MarketDataCache.get: the data returned ("none": None), the cache and counters left
CacheGet(c, h, m, ticker, now) ==
    LET key == Upper(ticker)
        entry == c[key]
    IN IF entry = NoEntry
       THEN [data |-> "none", cache |-> c, hits |-> h, misses |-> m + 1]
       ELSE IF now > entry.expires_at
       THEN [data |-> "none", cache |-> [c EXCEPT ![key] = NoEntry], hits |-> h, misses |-> m + 1]
       ELSE [data |-> entry.data, cache |-> c, hits |-> h + 1, misses |-> m]

\* set storing under the ticker as given
CacheSetRaw(c, ticker, data, ttl_seconds, now) ==
    [c EXCEPT ![ticker] = [data |-> data, expires_at |-> now + ttl_seconds]]

\* MarketDataCache.set
CacheSet(c, ticker, data, ttl_seconds, now) ==
    [c EXCEPT ![Upper(ticker)] = [data |-> data, expires_at |-> now + ttl_seconds]]

\* a MarketData put in result.successful
Fetched(ticker, data, cached) == [ticker |-> ticker, data |-> data, cached |-> cached]

\* time passes
CacheTick ==
    /\ cnow < MaxCacheClock
    /\ cnow' = cnow + 1
    /\ UNCHANGED <<cache, hits, misses, gets, batchVars, fres, cret, calls, upstreamCalls>>
    /\ UNCHANGED <<throttleVars, quotaVars>>

\* _cache.get(ticker)
CacheGetCall(ticker) ==
    /\ gets < MaxGets
    /\ LET got == CacheGet(cache, hits, misses, ticker, cnow)
       IN /\ cache' = got.cache
          /\ hits' = got.hits
          /\ misses' = got.misses
          /\ cret' = Return("get", ticker, got.data, NoVal, cret)
    /\ gets' = gets + 1
    /\ UNCHANGED <<cnow, batchVars, fres, calls, upstreamCalls>>
    /\ UNCHANGED <<throttleVars, quotaVars>>

\* _cache.set(ticker, data, ttl_seconds)
CacheSetCall(ticker, data, ttl_seconds) ==
    /\ cache' = CacheSet(cache, ticker, data, ttl_seconds, cnow)
    /\ cret' = Return("set", ticker, data, cnow + ttl_seconds, cret)
    /\ UNCHANGED <<cnow, hits, misses, gets, batchVars, fres, calls, upstreamCalls>>
    /\ UNCHANGED <<throttleVars, quotaVars>>

\* _cache.clear() (clear_cache)
CacheClearCall ==
    /\ cache' = [k \in DOMAIN cache |-> NoEntry]
    /\ hits' = 0
    /\ misses' = 0
    /\ gets' = 0
    /\ cret' = Return("clear", <<>>, Cardinality(Stored(cache)), NoVal, cret)
    /\ UNCHANGED <<cnow, batchVars, fres, calls, upstreamCalls>>
    /\ UNCHANGED <<throttleVars, quotaVars>>

\* _cache.get_stats() (get_cache_stats)
CacheStatsCall ==
    /\ cret' = Return("stats", <<>>, get_stats(cache, hits, misses), NoVal, cret)
    /\ UNCHANGED <<cacheVars, batchVars, fres, calls, upstreamCalls>>
    /\ UNCHANGED <<throttleVars, quotaVars>>

\* batch_fetch(tickers, use_cache): entry, the defaults taken from the
\* configuration, and the normalisation
BatchStart(tickers, uc) ==
    /\ bpc \in {"idle", "done"}
    /\ calls < MaxCalls
    /\ calls' = calls + 1
    /\ use_cache' = uc
    /\ unique_tickers' = UniqueTickers(tickers)
    /\ given' = Cardinality({i \in 1..Len(tickers) : NonSpace(tickers[i]) # {}})
    /\ bidx' = 1
    /\ tickers_to_fetch' = <<>>
    /\ future' = [k \in Symbols |-> "none"]
    /\ outcome' = [k \in Symbols |-> "none"]
    /\ successful' = <<>>
    /\ failed' = <<>>
    /\ cache_hits' = 0
    /\ api_calls' = 0
    /\ bpc' = IF tickers = <<>> THEN "done" ELSE "partition"
    /\ UNCHANGED <<cacheVars, cache_ttl, max_concurrent, fres, cret, upstreamCalls>>
    /\ UNCHANGED <<throttleVars, quotaVars>>

\* for ticker in unique_tickers: one turn of the loop that separates the
\* cached tickers; after the last one the fetch tasks are submitted
BatchPartition ==
    /\ bpc = "partition"
    /\ IF bidx > Len(unique_tickers)
       THEN /\ bpc' = IF tickers_to_fetch = <<>> THEN "done" ELSE "pool"
            /\ future' = [k \in Symbols |->
                             IF k \in SeqRange(tickers_to_fetch) THEN "queued" ELSE "none"]
            /\ UNCHANGED <<cacheVars, bidx, tickers_to_fetch, successful, cache_hits>>
       ELSE LET ticker == unique_tickers[bidx]
                got == CacheGet(cache, hits, misses, ticker, cnow)
            IN /\ bidx' = bidx + 1
               /\ IF use_cache
                  THEN /\ cache' = got.cache
                       /\ hits' = got.hits
                       /\ misses' = got.misses
                       /\ gets' = gets + 1
                  ELSE UNCHANGED <<cache, hits, misses, gets>>
               /\ IF use_cache /\ got.data # "none"
                  THEN /\ successful' = Append(successful, Fetched(ticker, got.data, TRUE))
                       /\ cache_hits' = cache_hits + 1
                       /\ UNCHANGED tickers_to_fetch
                  ELSE /\ tickers_to_fetch' = Append(tickers_to_fetch, ticker)
                       /\ UNCHANGED <<successful, cache_hits>>
               /\ UNCHANGED <<cnow, bpc, future>>
    /\ UNCHANGED <<use_cache, cache_ttl, max_concurrent, given, unique_tickers, outcome, failed, api_calls,
                   fres, cret, calls, upstreamCalls>>
    /\ UNCHANGED <<throttleVars, quotaVars>>

Running == {k \in Symbols : future[k] = "running"}

\* _fetch_single_ticker in a worker of the executor: yf.Ticker(ticker) and
\* _extract_market_data ask the upstream
WorkerFetch(k, answer) ==
    /\ bpc = "pool"
    /\ future[k] = "queued"
    /\ Cardinality(Running) < max_concurrent
    /\ future' = [future EXCEPT ![k] = "running"]
    /\ outcome' = [outcome EXCEPT ![k] = answer]
    /\ upstreamCalls' = upstreamCalls + 1
    /\ UNCHANGED <<cacheVars, bpc, use_cache, cache_ttl, max_concurrent, given, unique_tickers, bidx,
                   tickers_to_fetch, successful, failed, cache_hits, api_calls, fres, cret, calls>>
    /\ UNCHANGED <<throttleVars, quotaVars>>

\* _fetch_single_ticker: the answer is classified, a priced result is cached,
\* and the worker returns
WorkerReturn(k) ==
    /\ bpc = "pool"
    /\ future[k] = "running"
    /\ future' = [future EXCEPT ![k] = "finished"]
    /\ IF outcome[k] = "price" /\ use_cache
       THEN cache' = CacheSet(cache, k, "price", cache_ttl, cnow)
       ELSE UNCHANGED cache
    /\ UNCHANGED <<cnow, hits, misses, gets, bpc, use_cache, cache_ttl, max_concurrent, given, unique_tickers, bidx,
                   tickers_to_fetch, outcome, successful, failed, cache_hits, api_calls, fres, cret,
                   calls, upstreamCalls>>
    /\ UNCHANGED <<throttleVars, quotaVars>>

\* a collection that stops the batch at the first failed result
CollectAborting(k) ==
    /\ bpc = "pool"
    /\ future[k] = "finished"
    /\ future' = [future EXCEPT ![k] = "collected"]
    /\ api_calls' = api_calls + 1
    /\ IF outcome[k] = "price"
       THEN /\ successful' = Append(successful, Fetched(k, "price", FALSE))
            /\ UNCHANGED <<failed, bpc>>
       ELSE /\ failed' = Append(failed, <<k, outcome[k]>>)
            /\ bpc' = "done"
            /\ UNCHANGED successful
    /\ UNCHANGED <<cacheVars, use_cache, cache_ttl, max_concurrent, given, unique_tickers, bidx,
                   tickers_to_fetch, outcome, cache_hits, fres, cret, calls, upstreamCalls>>
    /\ UNCHANGED <<throttleVars, quotaVars>>

\* for future in as_completed(futures): one result is taken
Collect(k) ==
    /\ bpc = "pool"
    /\ future[k] = "finished"
    /\ future' = [future EXCEPT ![k] = "collected"]
    /\ api_calls' = api_calls + 1
    /\ IF outcome[k] = "price"
       THEN /\ successful' = Append(successful, Fetched(k, "price", FALSE))
            /\ UNCHANGED failed
       ELSE /\ failed' = Append(failed, <<k, outcome[k]>>)
            /\ UNCHANGED successful
    /\ UNCHANGED <<cacheVars, bpc, use_cache, cache_ttl, max_concurrent, given, unique_tickers, bidx,
                   tickers_to_fetch, outcome, cache_hits, fres, cret, calls, upstreamCalls>>
    /\ UNCHANGED <<throttleVars, quotaVars>>

\* every future was collected: the executor is left and the result returned
BatchReturn ==
    /\ bpc = "pool"
    /\ \A k \in SeqRange(tickers_to_fetch) : future[k] = "collected"
    /\ bpc' = "done"
    /\ UNCHANGED <<cacheVars, use_cache, cache_ttl, max_concurrent, given, unique_tickers, bidx,
                   tickers_to_fetch, future, outcome, successful, failed, cache_hits, api_calls,
                   fres, cret, calls, upstreamCalls>>
    /\ UNCHANGED <<throttleVars, quotaVars>>

\* fetch_market_data(ticker, use_cache), called by the API service; what it
\* returns is kept as the answer it carries
fetch_market_data(ticker, uc, answer) ==
    /\ calls < MaxCalls
    /\ calls' = calls + 1
    /\ IF ticker = <<>> \/ Strip(ticker) = <<>>
       THEN /\ fres' = "ValueError"
            /\ UNCHANGED <<cache, hits, misses, gets, upstreamCalls>>
       ELSE LET t == Normalize(ticker)
                got == CacheGet(cache, hits, misses, t, cnow)
            IN IF uc /\ got.data # "none"
               THEN /\ fres' = got.data
                    /\ cache' = got.cache
                    /\ hits' = got.hits
                    /\ misses' = got.misses
                    /\ gets' = gets + 1
                    /\ UNCHANGED upstreamCalls
               ELSE /\ upstreamCalls' = upstreamCalls + 1
                    /\ hits' = IF uc THEN got.hits ELSE hits
                    /\ misses' = IF uc THEN got.misses ELSE misses
                    /\ gets' = IF uc THEN gets + 1 ELSE gets
                    /\ fres' = answer
                    /\ cache' = IF uc /\ answer # "raises"
                                THEN CacheSet(got.cache, t, answer, cache_ttl, cnow)
                                ELSE IF uc THEN got.cache ELSE cache
    /\ UNCHANGED <<cnow, batchVars, cret>>
    /\ UNCHANGED <<throttleVars, quotaVars>>

(***************************************************************************)
(* Specifications of the throttle                                          *)
(***************************************************************************)
vars == <<throttleVars, quotaVars, fetchVars>>

InitThrottle ==
    /\ clock = 0
    /\ fault = "ConnectionError"
    /\ built = [p \in Procs |-> FALSE]
    /\ use_redis = [p \in Procs |-> FALSE]
    /\ redis_client = [p \in Procs |-> FALSE]
    /\ local_tokens = [p \in Procs |-> 0]
    /\ local_last_refill = [p \in Procs |-> 0]
    /\ rTokens = NoVal
    /\ rLastRefill = NoVal
    /\ rHourCount = 0
    /\ rHourExpire = NoVal
    /\ pc = [t \in Threads |-> "idle"]
    /\ timeout = [t \in Threads |-> 0]
    /\ start_time = [t \in Threads |-> 0]
    /\ tnow = [t \in Threads |-> 0]
    /\ tadd = [t \in Threads |-> 0]
    /\ tcur = [t \in Threads |-> 0]
    /\ tokens = [t \in Threads |-> 0]
    /\ wake = [t \in Threads |-> 0]
    /\ result = [t \in Threads |-> "none"]
    /\ granted = 0
    /\ spent = [t \in Threads |-> 0]
    /\ faulted = [t \in Threads |-> FALSE]

InitQuota ==
    /\ qclock = 0
    /\ instance = [p \in Procs |-> FALSE]
    /\ qcount = [k \in Keys |-> 0]
    /\ qexpire = [k \in Keys |-> NoVal]
    /\ rpc = [t \in Threads |-> "idle"]
    /\ resp = [t \in Threads |-> NoResponse]
    /\ rid = [t \in Threads |-> "u1"]
    /\ rres = [t \in Threads |-> NoResult]
    /\ rec = [t \in Threads |-> "none"]
    /\ rok = [t \in Threads |-> FALSE]
    /\ usage = [i \in Ids |-> 0]

InitFetch ==
    /\ cnow = 0
    /\ cache = [k \in CacheKeys |-> NoEntry]
    /\ hits = 0
    /\ misses = 0
    /\ gets = 0
    /\ cret = NoReturn
    /\ bpc = "idle"
    /\ use_cache = TRUE
    /\ given = 0
    /\ unique_tickers = <<>>
    /\ bidx = 1
    /\ tickers_to_fetch = <<>>
    /\ future = [k \in Symbols |-> "none"]
    /\ outcome = [k \in Symbols |-> "none"]
    /\ successful = <<>>
    /\ failed = <<>>
    /\ cache_hits = 0
    /\ api_calls = 0
    /\ fres = "none"
    /\ calls = 0
    /\ upstreamCalls = 0

\* the fetcher is not in use
FetchIdle ==
    /\ InitFetch
    /\ cache_ttl = MaxTTL
    /\ max_concurrent = MaxWorkers

\* the throttle is not in use
ThrottleIdle ==
    /\ InitThrottle
    /\ REDIS_ENABLED = FALSE
    /\ backendUp = FALSE
    /\ proc = [t \in Threads |-> 1]

\* the limiter is not in use
QuotaIdle ==
    /\ InitQuota
    /\ FetchIdle
    /\ tierOf = [i \in Ids |-> "anonymous"]

\* one thread calls acquire again and again on a throttle in local mode
InitSeq ==
    /\ InitThrottle
    /\ QuotaIdle
    /\ REDIS_ENABLED = FALSE
    /\ backendUp = FALSE
    /\ proc = [t \in Threads |-> 1]

NextSeq ==
    \/ Tick
    \/ Construct(1)
    \/ \E to \in Timeouts : granted < MaxSeqGranted /\ Enter(1, to)
    \/ AcquireStep(1)

SpecSeq == InitSeq /\ [][NextSeq]_vars

\* one caller makes call after call with a timeout longer than the time a
\* token takes to arrive, on a throttle built at time 0
InitRate ==
    /\ InitThrottle
    /\ QuotaIdle
    /\ REDIS_ENABLED = FALSE
    /\ backendUp = FALSE
    /\ proc = [t \in Threads |-> 1]

NextRate ==
    \/ TickRate
    \/ Construct(1)
    \/ granted < MaxRateGranted /\ Enter(1, RateTimeout)
    \/ AcquireStep(1)

SpecRate == InitRate /\ [][NextRate]_vars

\* the threads of one process call acquire on its throttle, in local mode
InitLocal ==
    /\ InitThrottle
    /\ QuotaIdle
    /\ REDIS_ENABLED = TRUE
    /\ backendUp = FALSE
    /\ proc = [t \in Threads |-> 1]

NextLocal ==
    \/ Tick
    \/ Construct(1)
    \/ \E t \in Threads, to \in Timeouts : granted < MaxGranted /\ Enter(t, to)
    \/ \E t \in Threads : AcquireStep(t)

SpecLocal == InitLocal /\ [][NextLocal]_vars

\* one caller with Redis enabled, while the backend fails and recovers
InitShared ==
    /\ InitThrottle
    /\ QuotaIdle
    /\ REDIS_ENABLED = TRUE
    /\ backendUp \in BOOLEAN
    /\ proc = [t \in Threads |-> 1]

NextShared ==
    \/ Tick
    \/ \E kind \in FaultKinds : BackendFails(kind)
    \/ BackendRecovers
    \/ Construct(1)
    \/ \E to \in AnyTimeouts : granted < MaxGranted /\ Enter(1, to)
    \/ AcquireStep(1)
    \/ AcquireStepRedis(1)

SpecShared == InitShared /\ [][NextShared]_vars

\* two processes, each with its own throttle, share the bucket in Redis; the
\* backend answers throughout
InitRace ==
    /\ InitThrottle
    /\ QuotaIdle
    /\ REDIS_ENABLED = TRUE
    /\ backendUp = TRUE
    /\ proc = [t \in Threads |-> t]

NextRace ==
    \/ clock < MaxRaceClock /\ Tick
    \/ \E p \in Procs : Construct(p)
    \/ \E t \in Threads : granted < MaxRaceGranted /\ Enter(t, MaxTimeout)
    \/ \E t \in Threads : Loop(t) \/ Backoff(t) \/ Wake(t)
    \/ \E t \in Threads : AcquireStepRedis(t)

SpecRace == InitRace /\ [][NextRace]_vars

\* the caller's thread is scheduled: a step of acquire that can be taken is
\* taken, and the caller goes on to its next call
CallerRuns ==
    \/ \E to \in AnyTimeouts : granted < MaxGranted /\ Enter(1, to)
    \/ AcquireStep(1)
    \/ AcquireStepRedis(1)

SpecSharedFair == SpecShared /\ WF_vars(CallerRuns)

(***************************************************************************)
(* Specifications of the quota limiter                                     *)
(***************************************************************************)
\* concurrent requests through the decorator, the backend reachable throughout
InitQuotaUp ==
    /\ InitThrottle
    /\ InitQuota
    /\ FetchIdle
    /\ proc = [t \in Threads |-> t]
    /\ REDIS_ENABLED = TRUE
    /\ backendUp = TRUE
    /\ tierOf \in [Ids -> Tiers]

NextQuotaUp ==
    \/ \E d \in HourSteps : AdvanceHours(d)
    \/ \E t \in Threads, i \in Ids : ReqCheck(t, i)
    \/ \E t \in Threads, ok \in BOOLEAN : ReqExec(t, ok)
    \/ \E t \in Threads : ReqRecord(t)

SpecQuotaUp == InitQuotaUp /\ [][NextQuotaUp]_vars

\* one handler: requests, direct calls and the admin reset, while the backend
\* fails and recovers
InitQuotaAll ==
    /\ InitThrottle
    /\ InitQuota
    /\ FetchIdle
    /\ proc = [t \in Threads |-> 1]
    /\ REDIS_ENABLED \in BOOLEAN
    /\ backendUp \in BOOLEAN
    /\ tierOf \in [Ids -> Tiers]

NextQuota ==
    \/ \E d \in HourSteps : AdvanceHours(d)
    \/ \E kind \in FaultKinds : QuotaBackendFails(kind)
    \/ QuotaBackendRecovers
    \/ \E i \in Ids : usage[i] < UsageCap(tierOf[i]) /\ ReqCheck(1, i)
    \/ \E ok \in BOOLEAN : ReqExec(1, ok)
    \/ ReqRecord(1)
    \/ \E i \in Ids : ApiCheck(1, i)
    \/ \E i \in Ids : ApiRecord(1, i)
    \/ \E i \in Ids : AdminReset(1, i)

SpecQuota == InitQuotaAll /\ [][NextQuota]_vars

(***************************************************************************)
(* Specification of the fetcher                                            *)
(***************************************************************************)
\* batch_fetch and fetch_market_data are called while time passes; the
\* throttle of the process is there and nobody else uses it
InitBatch ==
    /\ ThrottleIdle
    /\ InitQuota
    /\ tierOf = [i \in Ids |-> "anonymous"]
    /\ InitFetch
    /\ cache_ttl \in TTLs
    /\ max_concurrent \in 1..MaxWorkers

NextBatch ==
    \/ CacheTick
    \/ \E tickers \in TickerLists, uc \in BOOLEAN : BatchStart(tickers, uc)
    \/ BatchPartition
    \/ \E k \in Symbols, answer \in Answers : WorkerFetch(k, answer)
    \/ \E k \in Symbols : WorkerReturn(k)
    \/ \E k \in Symbols : Collect(k)
    \/ BatchReturn
    \/ \E ticker \in RawTickers, uc \in BOOLEAN, answer \in Answers :
          fetch_market_data(ticker, uc, answer)

SpecBatch == InitBatch /\ [][NextBatch]_vars

(***************************************************************************)
(* Specification of the cache                                              *)
(***************************************************************************)
\* threads call get, set, clear and get_stats on the module's cache while
\* time passes; each call runs under the cache's lock
InitCache ==
    /\ ThrottleIdle
    /\ InitQuota
    /\ tierOf = [i \in Ids |-> "anonymous"]
    /\ FetchIdle

NextCache ==
    \/ CacheTick
    \/ \E ticker \in CacheTickers : CacheGetCall(ticker)
    \/ \E ticker \in CacheTickers, data \in CacheData, ttl \in TTLs :
          CacheSetCall(ticker, data, ttl)
    \/ CacheClearCall
    \/ CacheStatsCall

SpecCache == InitCache /\ [][NextCache]_vars

(***************************************************************************)
(* Properties of the fetcher                                               *)
(***************************************************************************)

\* C1: in every execution of batch_fetch and of fetch_market_data each request
\* sent upstream is preceded by a successful acquire of the throttle made for
\* it: the requests sent never outnumber the calls of acquire that returned
\* True.
C1_AcquireBeforeFetch == upstreamCalls <= granted

(***************************************************************************)
(* Properties of the throttle                                              *)
(***************************************************************************)

\* C2: token conservation in local mode.  While no time has elapsed since the
\* throttle was built with a full bucket, a single caller is granted at most
\* YAHOO_BURST_LIMIT tokens, every grant takes exactly one token from the
\* bucket, and once YAHOO_BURST_LIMIT calls have returned True no further
\* call reaches the consume step: it returns False or waits.
C2_TokenConservation ==
    clock = 0 =>
        /\ granted <= YAHOO_BURST_LIMIT
        /\ built[1] /\ pc[1] \in {"idle", "done", "loop", "backoff", "sleep"}
              => local_tokens[1] + granted * UnitsPerToken = BurstUnits
        /\ granted = YAHOO_BURST_LIMIT
              => pc[1] \notin {"l_dec_load", "l_dec_store"}
        /\ pc[1] = "done" /\ result[1] = "true" => granted >= 1

\* the call after the burst has returned False and the clock has not moved
C2_Witness ==
    /\ clock = 0
    /\ granted = YAHOO_BURST_LIMIT
    /\ local_tokens[1] = 0
    /\ pc[1] = "done"
    /\ result[1] = "false"

\* C3: in every reachable state of the local bucket 0 <= tokens <= burst limit,
\* whatever the interleaving of the refill and consume steps of the threads of
\* one process; and no token is consumed twice: the tokens granted never
\* exceed the full bucket plus what the elapsed time can have refilled.
C3_TokenRange ==
    /\ \A p \in Procs :
          built[p] => local_tokens[p] >= 0 /\ local_tokens[p] <= BurstUnits
    /\ granted * UnitsPerToken <= BurstUnits + TokensToAdd(clock)

\* C7: a call of acquire that met a backend failure does not return False
\* while the local bucket of its process holds a whole token: it falls back
\* to the local bucket.
C7_FallbackToLocal ==
    \A t \in Threads :
        (pc[t] = "done" /\ result[t] = "false" /\ faulted[t])
            => ~HasToken(local_tokens[proc[t]])

(***************************************************************************)
(* Properties of the quota limiter                                         *)
(***************************************************************************)
Limited(tier) == RATE_LIMITS(tier) # 0 - 1

\* a step that is a call of check_rate_limit for id by thread 1
IsCheck(id) == ApiCheck(1, id) \/ ReqCheck(1, id)

\* a step that is a call of record_usage for id by thread 1
IsRecord(id) == ApiRecord(1, id) \/ (rid[1] = id /\ ReqRecord(1))

BackendReachable == REDIS_ENABLED /\ backendUp

\* C4: for every limited tier, identifier and UTC day, the day counter never
\* exceeds the tier's daily limit, whatever the interleaving of the requests
\* that pass through rate_limit_check.
C4_QuotaNeverExceeded ==
    \A k \in Keys : Limited(k[1]) => qcount[k] <= RATE_LIMITS(k[1])

\* C5: with the backend reachable, a check_rate_limit made after k recorded
\* usages of the day (k = usage[id]) returns allowed with remaining = limit - k
\* when k < limit and refused with remaining = 0 when k >= limit;
\* suggest_upgrade holds exactly when refused and the tier is anonymous.
C5_CheckAfterRecords ==
    [][\A id \in Ids :
          (IsCheck(id) /\ BackendReachable /\ Limited(tierOf[id])) =>
              LET limit == RATE_LIMITS(tierOf[id])
                  k == usage[id]
                  r == rres'[1]
              IN /\ r.allowed = (k < limit)
                 /\ r.remaining = (IF k < limit THEN limit - k ELSE 0)
                 /\ r.limit = limit
                 /\ r.suggest_upgrade = (k >= limit /\ tierOf[id] = "anonymous")]_vars

\* the free tier is exhausted by ten records and the check refuses without
\* suggesting an upgrade
C5_Witness ==
    /\ tierOf["u1"] = "free"
    /\ usage["u1"] = 10
    /\ rres[1].via = "counted"
    /\ ~rres[1].allowed
    /\ rres[1].remaining = 0
    /\ ~rres[1].suggest_upgrade

\* C6: fail-open check.  For a limited tier, a check_rate_limit made while
\* Redis is disabled or the backend does not answer returns allowed with
\* remaining = limit and suggest_upgrade False, and no exception escapes,
\* whatever usage was recorded before.
C6_FailOpenCheck ==
    [][\A id \in Ids :
          (IsCheck(id) /\ ~BackendReachable /\ Limited(tierOf[id])) =>
              /\ rres'[1].via \in {"no_client", "redis_error"}
              /\ rres'[1].allowed
              /\ rres'[1].remaining = RATE_LIMITS(tierOf[id])
              /\ ~rres'[1].suggest_upgrade
              /\ rpc'[1] # "error"]_vars

\* the quota of the day is used up, the backend is down, and the check allows
C6_Witness ==
    /\ ~backendUp
    /\ Limited(tierOf["u1"])
    /\ usage["u1"] >= RATE_LIMITS(tierOf["u1"])
    /\ rres[1].via = "redis_error"
    /\ rres[1].allowed
    /\ rres[1].remaining = RATE_LIMITS(tierOf["u1"])

\* C8: an unlimited tier is never metered.  No counter of a tier whose limit
\* is -1 ever exists, and every check_rate_limit for such a tier returns
\* allowed, remaining -1, limit -1, suggest_upgrade False, in any backend state.
C8_UnlimitedNeverMetered ==
    /\ [](\A k \in Keys : ~Limited(k[1]) => qcount[k] = 0 /\ qexpire[k] = NoVal)
    /\ [][\A id \in Ids :
             (IsCheck(id) /\ ~Limited(tierOf[id])) =>
                 /\ rres'[1].allowed
                 /\ rres'[1].remaining = 0 - 1
                 /\ rres'[1].limit = 0 - 1
                 /\ ~rres'[1].suggest_upgrade
                 /\ rpc'[1] # "error"]_vars

\* a check for the pro tier that follows a record_usage which sent nothing
C8_Witness ==
    /\ tierOf["u1"] = "pro"
    /\ rec[1] = "unmetered"
    /\ rres[1].via = "unlimited"
    /\ rres[1].remaining = 0 - 1

\* C9: record_usage never raises.  A call made while Redis is disabled or the
\* backend does not answer returns normally and changes no counter and no
\* expiry.
C9_RecordNeverRaises ==
    [][\A id \in Ids :
          (IsRecord(id) /\ ~BackendReachable) =>
              /\ rec'[1] \in {"no_client", "redis_error", "unmetered"}
              /\ rpc'[1] = "done"
              /\ qcount' = qcount
              /\ qexpire' = qexpire]_vars

\* the pipeline failed on a counter that holds usage, and the call returned
C9_Witness ==
    /\ rec[1] = "redis_error"
    /\ rpc[1] = "done"
    /\ usage["u1"] > 0
    /\ ~backendUp

\* C10: day scoping.  For a limited tier, a check_rate_limit made on a later
\* UTC day before any usage of that day is recorded returns allowed with
\* remaining = limit, whatever the counters of earlier days hold.
C10_DayScoped ==
    [][\A id \in Ids :
          (IsCheck(id) /\ Limited(tierOf[id]) /\ DateOf(qclock) > 0 /\ usage[id] = 0) =>
              /\ rres'[1].allowed
              /\ rres'[1].remaining = RATE_LIMITS(tierOf[id])]_vars

\* the key of day 0 is exhausted and still alive; the check of day 1 reads the
\* backend and allows with the whole quota
C10_Witness ==
    /\ DateOf(qclock) = 1
    /\ qcount[<<"anonymous", "u1", 0>>] >= RATE_LIMITS("anonymous")
    /\ tierOf["u1"] = "anonymous"
    /\ rres[1].via = "counted"
    /\ rres[1].allowed
    /\ rres[1].remaining = RATE_LIMITS("anonymous")

\* a get called on the cache directly
IsGet(ticker) == CacheGetCall(ticker)

\* C11: cache TTL validity.  A get of a stored entry returns the stored value
\* and keeps the entry if and only if now < expires_at; at any now >=
\* expires_at, the instant now = expires_at included, it returns a miss and
\* removes the entry, which no longer counts in the size of get_stats.
C11_TTLValidity ==
    [][\A ticker \in CacheTickers :
          (IsGet(ticker) /\ cache[Upper(ticker)] # NoEntry) =>
              IF cnow < cache[Upper(ticker)].expires_at
              THEN /\ cret'.value = cache[Upper(ticker)].data
                   /\ cache' = cache
              ELSE /\ cret'.value = "none"
                   /\ cache'[Upper(ticker)] = NoEntry
                   /\ get_stats(cache', hits', misses').size
                         = get_stats(cache, hits, misses).size - 1]_vars

LowerChar(c) == IF c = "A" THEN "a" ELSE c

\* two tickers that differ at most by letter case
SameModuloCase(s, t) ==
    /\ Len(s) = Len(t)
    /\ \A i \in 1..Len(s) : LowerChar(s[i]) = LowerChar(t[i])

\* C12: cache key normalisation.  The cache never holds two entries whose keys
\* differ only by letter case, and a get made right after a set, under a
\* ticker that differs from the set's at most by case and before the entry's
\* TTL has run out, returns the value that was set.
C12_KeyNormalisation ==
    /\ [](\A k1 \in Stored(cache), k2 \in Stored(cache) :
             SameModuloCase(k1, k2) => k1 = k2)
    /\ [][\A ticker \in CacheTickers :
             (/\ IsGet(ticker)
              /\ cret.op = "set"
              /\ SameModuloCase(cret.ticker, ticker)
              /\ cnow < cret.until) => cret'.value = cret.value]_vars

\* set("a", price) and then get("A") within the TTL returned the price data
C12_Witness ==
    /\ cret.op = "get"
    /\ cret.ticker = <<"A">>
    /\ cret.prev_op = "set"
    /\ cret.prev_ticker = <<"a">>
    /\ cret.value = "price"
    /\ cache[<<"A">>] # NoEntry
    /\ cnow < cache[<<"A">>].expires_at
    /\ cache[<<"a">>] = NoEntry

\* C13: cache accounting.  After any interleaving of get, set, clear and
\* get_stats, hits + misses is the number of gets completed since the last
\* clear, and each get increments exactly one of the two; get_stats returns
\* the number of stored keys as size, the two counters, and hit_rate =
\* hits / (hits + misses), or 0 when there was no get; clear returns the
\* number of entries it removed, leaves the cache empty and resets hits and
\* misses to 0.
C13_CacheAccounting ==
    /\ [](hits + misses = gets)
    /\ [][\A ticker \in CacheTickers :
             IsGet(ticker) =>
                 \/ hits' = hits + 1 /\ misses' = misses /\ cret'.value # "none"
                 \/ hits' = hits /\ misses' = misses + 1 /\ cret'.value = "none"]_vars
    /\ [][CacheStatsCall =>
             /\ cret'.value.size = Cardinality({k \in CacheKeys : cache[k] # NoEntry})
             /\ cret'.value.hits = hits
             /\ cret'.value.misses = misses
             /\ IF gets = 0
                THEN cret'.value.hit_rate = <<0, 1>>
                ELSE cret'.value.hit_rate = <<hits, gets>>
             /\ UNCHANGED cacheVars]_vars
    /\ [][CacheClearCall =>
             /\ cret'.value = Cardinality({k \in CacheKeys : cache[k] # NoEntry})
             /\ \A k \in CacheKeys : cache'[k] = NoEntry
             /\ hits' = 0
             /\ misses' = 0]_vars

\* get_stats after a hit and a miss on a cache of one entry: half the gets hit
C13_Witness ==
    /\ cret.op = "stats"
    /\ cret.value.size = 1
    /\ cret.value.hits = 1
    /\ cret.value.misses = 1
    /\ cret.value.hit_rate = <<1, 2>>

\* clear returned the two entries it removed, after gets had been counted
C13_WitnessClear ==
    /\ cret.op = "clear"
    /\ cret.value = 2
    /\ cret.prev_op = "get"
    /\ hits = 0
    /\ misses = 0

\* the tickers of the running batch whose upstream fetch failed: it raised, or
\* the answer carried no price
FailedFetches ==
    {k \in SeqRange(unique_tickers) : outcome[k] \in {"noprice", "raises"}}

\* C14: batch isolation.  A batch of N unique tickers of which k upstream
\* fetches fail returns with exactly N - k entries in successful and k entries
\* in failed, one for each failed ticker; a failed item never stops the batch:
\* until the call has returned, the batch can always take its next step.
C14_BatchIsolation ==
    /\ bpc = "done" =>
          /\ Len(successful) = Len(unique_tickers) - Cardinality(FailedFetches)
          /\ Len(failed) = Cardinality(FailedFetches)
          /\ {failed[i][1] : i \in 1..Len(failed)} = FailedFetches
          /\ {successful[i].ticker : i \in 1..Len(successful)}
                = SeqRange(unique_tickers) \ FailedFetches
    /\ bpc \in {"partition", "pool"} =>
          \/ ENABLED BatchPartition
          \/ ENABLED BatchReturn
          \/ \E k \in Symbols : ENABLED WorkerReturn(k) \/ ENABLED Collect(k)
          \/ \E k \in Symbols, answer \in Answers : ENABLED WorkerFetch(k, answer)

\* a batch of two tickers returned: the fetch of one raised, the other was
\* fetched
C14_Witness ==
    /\ bpc = "done"
    /\ Len(unique_tickers) = 2
    /\ outcome[unique_tickers[1]] = "raises"
    /\ outcome[unique_tickers[2]] = "price"
    /\ Len(successful) = 1
    /\ Len(failed) = 1
    /\ api_calls = 2

\* the part of a ticker between its first and its last non-space character
Core(t) ==
    IF NonSpace(t) = {} THEN <<>>
    ELSE LET first == CHOOSE i \in NonSpace(t) : \A j \in NonSpace(t) : i <= j
             last == CHOOSE i \in NonSpace(t) : \A j \in NonSpace(t) : j <= i
         IN SubSeq(t, first, last)

\* n is the normal form of the input ticker t: t trimmed, in upper case
IsNormalFormOf(n, t) ==
    /\ SameModuloCase(n, Core(t))
    /\ \A i \in 1..Len(n) : n[i] # "a"

\* C15: de-duplication.  On entry (a step that counts a call and touches
\* neither the cache nor the upstream) batch_fetch keeps for every non-blank input ticker
\* its trimmed upper-case form and nothing else, each form once; during the
\* call a ticker is sent upstream only if it was not sent before in this call
\* and was not served from the cache, and the returned api_calls is the number
\* of distinct normalised tickers minus those served from the cache.
C15_Deduplication ==
    /\ [][(calls' # calls /\ UNCHANGED <<cacheVars, fres, upstreamCalls>>) =>
             \A tickers \in TickerLists, uc \in BOOLEAN :
                 BatchStart(tickers, uc) =>
                     /\ \A i \in 1..Len(tickers) :
                           NonSpace(tickers[i]) # {} =>
                               \E j \in 1..Len(unique_tickers') :
                                   IsNormalFormOf(unique_tickers'[j], tickers[i])
                     /\ \A j \in 1..Len(unique_tickers') :
                           \E i \in 1..Len(tickers) :
                               /\ NonSpace(tickers[i]) # {}
                               /\ IsNormalFormOf(unique_tickers'[j], tickers[i])]_vars
    /\ [](\A i \in 1..Len(unique_tickers), j \in 1..Len(unique_tickers) :
             unique_tickers[i] = unique_tickers[j] => i = j)
    /\ [][\A k \in Symbols, answer \in Answers :
             WorkerFetch(k, answer) =>
                 /\ outcome[k] = "none"
                 /\ k \in SeqRange(unique_tickers)
                 /\ \A i \in 1..Len(successful) : successful[i].ticker # k]_vars
    /\ [](bpc = "done" =>
             /\ api_calls = Len(unique_tickers) - cache_hits
             /\ api_calls = Cardinality({k \in Symbols : outcome[k] # "none"}))

\* two non-blank inputs that differ only by case or surrounding whitespace
\* made one normalised ticker, fetched upstream once
C15_Witness ==
    /\ bpc = "done"
    /\ given = 2
    /\ unique_tickers = << <<"A">> >>
    /\ cache_hits = 0
    /\ api_calls = 1
    /\ calls = 1
    /\ upstreamCalls = 1

\* C16: acquire ends with a boolean.  A call that has returned carries True or
\* False, and it carries False only when the timeout has elapsed since its
\* entry and the call has taken no token from the bucket.
C16_AcquireReturnsBoolean ==
    \A t \in Threads :
        pc[t] = "done" =>
            /\ result[t] \in {"true", "false"}
            /\ result[t] = "false" =>
                  /\ clock - start_time[t] >= timeout[t]
                  /\ spent[t] = 0

\* C17: rate enforcement over time.  From a bucket built full at time 0, with
\* calls made one after the other and a timeout longer than the time a token
\* takes to arrive, every call that has returned returned True, and the n-th
\* grant, n > YAHOO_BURST_LIMIT, is not given before
\* (n - YAHOO_BURST_LIMIT) / YAHOO_REQUESTS_PER_SECOND seconds have elapsed.
C17_RateOverTime ==
    /\ pc[1] = "done" => result[1] = "true"
    /\ granted > YAHOO_BURST_LIMIT =>
          (granted - YAHOO_BURST_LIMIT) * TicksPerSecond
             <= clock * YAHOO_REQUESTS_PER_SECOND

\* the tenth call has returned True, 2.5 seconds after the bucket was full
C17_Witness ==
    /\ granted = 10
    /\ pc[1] = "done"
    /\ result[1] = "true"
    /\ clock * YAHOO_REQUESTS_PER_SECOND = (10 - YAHOO_BURST_LIMIT) * TicksPerSecond

\* what dt ticks are worth at YAHOO_REQUESTS_PER_SECOND, in token units
Earned(dt) == (dt * YAHOO_REQUESTS_PER_SECOND * UnitsPerToken) \div TicksPerSecond

\* C18: refill monotonicity.  With one caller, a refill made dt after the
\* last one raises the bucket by exactly min(burst - tokens, dt * rate), in
\* the local bucket and in the shared one, and sets the time of the last
\* refill to the now it read; a refill never lowers the bucket, and the bucket
\* never exceeds the burst limit.
C18_RefillMonotone ==
    /\ [](/\ \A p \in Procs : local_tokens[p] <= BurstUnits
          /\ rTokens <= BurstUnits)
    /\ [][LStore(1) =>
             LET old == local_tokens[proc[1]]
                 dt == tnow[1] - local_last_refill[proc[1]]
             IN /\ local_tokens'[proc[1]] = old + Min(BurstUnits - old, Earned(dt))
                /\ local_tokens'[proc[1]] >= old]_vars
    /\ [][LStoreLast(1) => local_last_refill'[proc[1]] = tnow[1]]_vars
    /\ [][(RSet(1) /\ backendUp) =>
             LET old == rTokens
                 dt == tnow[1] - rLastRefill
             IN /\ rTokens' = old + Min(BurstUnits - old, Earned(dt))
                /\ rTokens' >= old
                /\ rLastRefill' = tnow[1]]_vars

\* a refill has just raised a bucket that a grant had lowered, by what the
\* elapsed time is worth, and the bucket is not full
C18_Witness ==
    /\ pc[1] = "l_store_last"
    /\ granted > 0
    /\ local_tokens[1] = BurstUnits - 1
    /\ tnow[1] - local_last_refill[1] = 1

\* the midnight that follows an hour, in hours
NextMidnight(hour) == (hour \div HoursPerDay + 1) * HoursPerDay

\* C19: a blocked request is answered 429.  When the check of a request
\* through the decorator returns allowed = False, the response has status 429
\* (never a 5xx) and carries the limit, the remaining count, the reset time
\* and a Retry-After; the endpoint is not run and record_usage is not called
\* for it, and no counter changes.
C19_Blocked429 ==
    /\ [][\A id \in Ids :
             (ReqCheck(1, id) /\ rres'[1].via # "raised" /\ ~rres'[1].allowed) =>
                 /\ rpc'[1] = "blocked"
                 /\ resp'[1].status = 429
                 /\ resp'[1].limit = RATE_LIMITS(tierOf[id])
                 /\ resp'[1].remaining = 0
                 /\ resp'[1].reset = NextMidnight(qclock)
                 /\ resp'[1].retry_after = NextMidnight(qclock) - qclock
                 /\ resp'[1].retry_after > 0
                 /\ qcount' = qcount
                 /\ qexpire' = qexpire
                 /\ usage' = usage]_vars
    /\ [](\A t \in Threads :
             /\ rpc[t] \in {"exec", "record"} => rres[t].allowed
             /\ rpc[t] = "blocked" => ~rres[t].allowed /\ resp[t].status = 429)
    /\ [][\A t \in Threads :
             rpc[t] = "blocked" =>
                 \/ rpc'[t] = "blocked" /\ resp'[t] = resp[t] /\ rok'[t] = rok[t] /\ rec'[t] = rec[t]
                 \/ \E id \in Ids : ReqCheck(t, id) \/ ApiCheck(t, id) \/ ApiRecord(t, id) \/ AdminReset(t, id)]_vars

\* an anonymous user who has used the whole quota is answered 429 with the
\* time left until midnight
C19_Witness ==
    /\ rpc[1] = "blocked"
    /\ tierOf["u1"] = "anonymous"
    /\ usage["u1"] >= RATE_LIMITS("anonymous")
    /\ resp[1].status = 429
    /\ resp[1].limit = RATE_LIMITS("anonymous")
    /\ resp[1].remaining = 0
    /\ resp[1].retry_after > 0

\* C20: usage is recorded only for work that was done.  The record step of a
\* request runs once, after the endpoint has returned, and increases the
\* counter only when the analysis succeeded: a request whose analysis failed
\* leaves every counter as it was.
C20_RecordOnlyOnSuccess ==
    [][ReqRecord(1) =>
          /\ rpc[1] = "record"
          /\ rpc'[1] # "record"
          /\ ~rok[1] => qcount' = qcount /\ usage' = usage]_vars

\* a step that stays within the UTC day of the key k
WithinDayOf(k) == DateOf(qclock) = k[3] /\ DateOf(qclock') = k[3]

WindowAndBuffer == (RATE_LIMIT_WINDOW + BUFFER_SECONDS) \div SECONDS_PER_HOUR

\* the midnight that ends the UTC day of the key k, in hours
EndOfDayOf(k) == (k[3] + 1) * HoursPerDay

\* a record_usage that metered sets the expiry of the day's key to
\* RATE_LIMIT_WINDOW + 3600 seconds from the call
ExpirySetOnRecord ==
    [][\A id \in Ids :
          (IsRecord(id) /\ rec'[1] = "recorded") =>
              /\ DateOf(qclock) = DateOf(qclock')
              /\ qexpire'[<<tierOf[id], id, DateOf(qclock)>>] = qclock + WindowAndBuffer]_vars

\* C22 as stated: counter expiry bounds.  Every metering record_usage sets the
\* key's expiry to RATE_LIMIT_WINDOW + 3600 seconds from the call, and a key
\* never expires before the end of its own UTC day and never survives more
\* than one hour past the following UTC midnight.
C22_ExpiryBounds ==
    /\ ExpirySetOnRecord
    /\ [](\A k \in Keys :
             qexpire[k] # NoVal =>
                 /\ qexpire[k] >= EndOfDayOf(k)
                 /\ qexpire[k] <= EndOfDayOf(k) + 1)

\* C22 as amended: every metering record_usage sets the key's expiry to
\* RATE_LIMIT_WINDOW + 3600 seconds from the call, a counter that holds usage
\* has an expiry, and a key never expires before the end of its own UTC day
\* and survives less than RATE_LIMIT_WINDOW + 3600 seconds past the following
\* UTC midnight.
C22_ExpiryWithinWindow ==
    /\ ExpirySetOnRecord
    /\ [](\A k \in Keys :
             /\ qcount[k] > 0 => qexpire[k] # NoVal
             /\ qexpire[k] # NoVal =>
                   /\ qexpire[k] >= EndOfDayOf(k)
                   /\ qexpire[k] < EndOfDayOf(k) + WindowAndBuffer)

\* usage recorded in the last hour of day 0: the key lives until the end of
\* day 1, a whole day past the following midnight
C22_Witness ==
    /\ qclock = HoursPerDay - 1
    /\ tierOf["u1"] = "anonymous"
    /\ rec[1] = "recorded"
    /\ qcount[<<"anonymous", "u1", 0>>] > 0
    /\ qexpire[<<"anonymous", "u1", 0>>] = 2 * HoursPerDay

\* C23: degraded mode is remembered.  When a call of the limiter failed to
\* connect to the backend (get_client returned None although Redis is
\* enabled), the next call of the process does not try to connect again: it
\* leaves the process without a client and is answered without the backend.
\* When an operation on the client raised, the next call does not go to the
\* backend either.
C23_DegradedRemembered ==
    [][\A id \in Ids :
          (/\ IsCheck(id)
           /\ REDIS_ENABLED
           /\ rres[1].via \in {"no_client", "redis_error"}) =>
              /\ instance'[1] = instance[1]
              /\ rres'[1].via \in {"no_client", "raised"}]_vars

\* C24: recovery after an outage.  Whenever the backend is reachable and Redis
\* is enabled, the throttle of a running process eventually works on the
\* shared bucket again (unless the backend is lost once more): it does not
\* stay on its process-local bucket for the rest of the process's life.
C24_ResumesSharedStore ==
    (built[1] /\ REDIS_ENABLED /\ backendUp) ~> (RedisMode(1) \/ ~backendUp)

\* token units a call has taken from the shared bucket without having returned yet
Held(t) == IF pc[t] \in {"r_incr", "r_expire"} THEN UnitsPerToken ELSE 0

\* token units handed out from the shared bucket so far
TakenUnits == granted * UnitsPerToken + Held(1) + Held(2)

\* burst + elapsed * rate, up to the last refill, in token units
Allowance == BurstUnits + Earned(OrDefault(rLastRefill, 0))

\* what is left in the shared bucket and what was handed out stay within
\* burst + elapsed * rate
WithinAllowance == OrDefault(rTokens, 0) + TakenUnits <= Allowance

\* what the caller read from the backend is still what the backend holds
FreshRead(t) ==
    /\ pc[t] = "r_dec" => tokens[t] = rTokens
    /\ pc[t] = "r_set" =>
          /\ tcur[t] = OrDefault(rTokens, 0)
          /\ tadd[t] = TokensToAdd(tnow[t] - OrDefault(rLastRefill, tnow[t]))

\* a set of the bucket computed from a value another process has since replaced
StaleWrite(t) == (RSet(t) \/ RDec(t)) /\ ~FreshRead(t)

\* C25: shared-mode refill race.  Each process grants a token only when its
\* own read of the shared bucket showed one, and what the bucket holds plus
\* what was handed out leaves burst + elapsed * rate only by a set that one
\* process computed from a value the other has replaced in the meantime (the
\* get, compute and set are separate steps).  Such an interleaving exists:
\* the witness is a state where both processes' calls returned True and the
\* permits granted exceed burst + elapsed * rate.
C25_OverGrantOnlyByRace ==
    /\ [](\A t \in Threads : pc[t] = "r_dec" => HasToken(tokens[t]))
    /\ [][(WithinAllowance /\ ~WithinAllowance') =>
             \E t \in Threads : StaleWrite(t)]_vars

\* both processes' calls have returned True and more permits were granted
\* than burst + elapsed * rate
C25_Witness ==
    /\ pc[1] = "done" /\ result[1] = "true"
    /\ pc[2] = "done" /\ result[2] = "true"
    /\ granted * UnitsPerToken > BurstUnits + Earned(clock)

\* C26: every entry of FetchResult.successful carries a price, whether it was
\* fetched in the call or served from the cache, after any sequence of
\* fetch_market_data and batch_fetch calls; and the cache only ever holds
\* results that were classified as successful (results with a price).
C26_SuccessfulHavePrice ==
    /\ \A i \in 1..Len(successful) : successful[i].data = "price"
    /\ \A k \in CacheKeys : cache[k].data \in {"none", "price"}

\* how many entries of successful and of failed a ticker has
TimesReported(k) ==
    Cardinality({i \in 1..Len(successful) : successful[i].ticker = k})
        + Cardinality({i \in 1..Len(failed) : failed[i][1] = k})

\* C27: batch accounting.  When batch_fetch has returned, every distinct
\* normalised input ticker has exactly one entry, in successful or in failed,
\* and there is no entry for anything else; cache_hits + api_calls is the
\* number of distinct normalised tickers, and so is
\* len(successful) + len(failed), in whatever order the workers completed.
C27_BatchAccounting ==
    bpc = "done" =>
        /\ \A k \in SeqRange(unique_tickers) : TimesReported(k) = 1
        /\ \A k \in Symbols \ SeqRange(unique_tickers) : TimesReported(k) = 0
        /\ \A i \in 1..Len(successful) : successful[i].ticker \in Symbols
        /\ \A i \in 1..Len(failed) : failed[i][1] \in Symbols
        /\ cache_hits + api_calls = Len(unique_tickers)
        /\ Len(successful) + Len(failed) = Len(unique_tickers)

\* a batch of two tickers returned, both fetched upstream; the worker of the
\* second ticker completed before the worker of the first
C27_Witness ==
    /\ bpc = "done"
    /\ Len(unique_tickers) = 2
    /\ cache_hits = 0
    /\ api_calls = 2
    /\ failed = <<>>
    /\ Len(successful) = 2
    /\ successful[1].ticker = unique_tickers[2]
    /\ successful[2].ticker = unique_tickers[1]

\* thread 1 checks id again: its last call was a check for id, made on the
\* same UTC day and with the backend answering, or not answering, as it does
\* now (a record or a reset in between would have cleared the kept result)
RepeatedCheck(id) ==
    /\ IsCheck(id)
    /\ rid[1] = id
    /\ rres[1].via \notin {"none", "raised"}
    /\ rres[1].reset_at = NextMidnight(qclock)
    /\ (rres[1].via = "counted") = BackendReachable

C29_OneTokenPerGrant ==
    /\ \A t \in Threads :
          pc[t] = "done" =>
              /\ result[t] = "true" => spent[t] = UnitsPerToken
              /\ result[t] = "false" => spent[t] = 0
    /\ (pc[1] \in {"idle", "done"} /\ RedisMode(1)) => rHourCount = granted

\* the buckets: the process's own and the shared one, with the hour counter
Buckets == <<local_tokens, local_last_refill, rTokens, rLastRefill, rHourCount, rHourExpire>>

\* C30: a call of acquire with timeout <= 0 returns False at once: it never
\* enters the refill or the consume and never sleeps, it returns False with
\* no token taken and no backend operation attempted, and no step from its
\* entry to its return changes a bucket, though the bucket may hold tokens;
\* a token is granted only by a call whose timeout is above zero.
C30_NoWaitNoToken ==
    /\ [](timeout[1] <= 0 =>
             /\ pc[1] \in {"idle", "loop", "done"}
             /\ pc[1] = "done" =>
                   /\ result[1] = "false"
                   /\ spent[1] = 0
                   /\ ~faulted[1])
    /\ [][(timeout'[1] <= 0 /\ pc'[1] \in {"loop", "done"}) => UNCHANGED Buckets]_vars
    /\ [][granted' # granted => (granted' = granted + 1 /\ timeout[1] > 0)]_vars

\* a call with a timeout below zero has returned False on a full shared
\* bucket that the backend would have served
C30_Witness ==
    /\ pc[1] = "done"
    /\ timeout[1] < 0
    /\ result[1] = "false"
    /\ RedisMode(1)
    /\ backendUp
    /\ rTokens = BurstUnits
    /\ granted > 0

=============================================================================
